---- MODULE Spec2Model ----
(***************************************************************************)
(* A model of godel-with-comp.py: the mu-lang builtins (zero, incr, proj,  *)
(* comp, rec, mu) and the standard library built from them.                *)
(*                                                                         *)
(* A function value (a Python closure) is a term: a record whose op field  *)
(* names the construct that built it.  Apply(t, args) is the call          *)
(* t(args...); it yields Ok(v) for a returned natural v and Raise(e) for a *)
(* raised exception.  The calls whose internal order the specification     *)
(* speaks about (mu's loop, rec's recursion, comp's generator) are also    *)
(* modelled step by step, with a log of the applications they make.        *)
(***************************************************************************)
EXTENDS Integers, Sequences, FiniteSets, TLC

\* ------------------------------------------------------------------ bounds
MaxArg   == 3      \* arguments are drawn from 0..MaxArg
MaxArity == 3      \* argument tuples have 0..MaxArity elements
MaxCalls == 2      \* a function value is called at most MaxCalls times
MaxSearch == MaxArg + 2   \* mu's counter is followed up to MaxSearch + 1

\* ------------------------------------------------------ results of a call
Ok(v)    == [err |-> "none", val |-> v]
Raise(e) == [err |-> e, val |-> 0]
None     == [err |-> "pending", val |-> 0]
IsOk(r)  == r.err = "none"
IsErr(r) == r.err \in {"TypeError", "IndexError"}

\* ------------------------------------------------- builtins (lines 9-44)
incr == [op |-> "incr"]

\* proj(i, args...): args[i]; an index past the end raises IndexError
proj(i, args) == IF i < Len(args) THEN Ok(args[i + 1]) ELSE Raise("IndexError")

\* comp(f, hs...) returns the closure g
comp(f, hs) == [op |-> "comp", f |-> f, hs |-> hs]

\* rec(f, g) returns the closure h
rec(f, g) == [op |-> "rec", f |-> f, g |-> g]

\* ------------------------------------------ standard library (lines 72-129)
const(k)  == [op |-> "const", k |-> k]
mkproj(i) == [op |-> "mkproj", i |-> i]

\* lambda x, y: f(y, x)   (the wrappers add, mul, exp, sub)
flip(f) == [op |-> "flip", f |-> f]
\* def name(x, y): return f(x, y)   (geq, lt)
def2(f) == [op |-> "def2", f |-> f]

zero == const(0)
one  == const(1)
id   == [op |-> "id"]

pred_step == [op |-> "lambda_n_y"]
pred == rec(zero, pred_step)

\* a base case that forgets x
add_base_zero == zero
add_base == id
add_step == comp(incr, <<mkproj(1)>>)
add_raw  == rec(add_base, add_step)
add      == flip(add_raw)

mul_base == zero
mul_step == comp(add, <<mkproj(1), mkproj(2)>>)
mul_raw  == rec(mul_base, mul_step)
mul      == flip(mul_raw)

exp_base == one
exp_step == comp(mul, <<mkproj(1), mkproj(2)>>)
exp_raw  == rec(exp_base, exp_step)
exp      == flip(exp_raw)

sub_base == id
\* a step that takes the predecessor of the counter, not of the result
sub_step_proj0 == comp(pred, <<mkproj(0)>>)
sub_step == comp(pred, <<mkproj(1)>>)
sub_raw  == rec(sub_base, sub_step)
\* sub without the exchange of its arguments
sub_noswap == sub_raw
sub      == flip(sub_raw)

is_zero_step == comp(zero, << >>)
is_zero == rec(one, is_zero_step)

sign_step == comp(one, << >>)
sign == rec(zero, sign_step)

\* a comparison built on sign instead of is_zero
leq_sign == comp(sign, <<sub>>)
leq == comp(is_zero, <<sub>>)

\* an equality that compares in one direction only
eq_oneway == comp(mul, <<leq, leq>>)
eq == comp(mul, <<leq, comp(leq, <<mkproj(1), mkproj(0)>>)>>)

neq == comp(sign, <<comp(sub, <<one, comp(eq, <<mkproj(0), mkproj(1)>>)>>)>>)

max == comp(add, <<comp(sub, <<mkproj(0), mkproj(1)>>), mkproj(1)>>)
min == comp(sub, <<comp(add, <<mkproj(0), mkproj(1)>>),
                   comp(max, <<mkproj(0), mkproj(1)>>)>>)

geq == def2(comp(leq, <<mkproj(1), mkproj(0)>>))
lt  == def2(comp(sign, <<comp(sub, <<mkproj(1), mkproj(0)>>)>>))

\* ------------------------------------------------------------ application
RECURSIVE Apply(_, _), comp_g(_, _, _), rec_h(_, _, _)

\* g(args...) of comp: xs = (h(args...) for h in hs); return f(xs...).
\* Unpacking the generator applies h1..hk in order; the first exception
\* ends the call before f is applied.
comp_g(f, hs, args) ==
  LET xs  == [j \in 1..Len(hs) |-> Apply(hs[j], args)]
      bad == {j \in 1..Len(hs) : ~IsOk(xs[j])}
  IN  IF bad # {}
      THEN xs[CHOOSE j \in bad : \A k \in bad : j <= k]
      ELSE Apply(f, [j \in 1..Len(hs) |-> xs[j].val])

\* h(n, xs...) of rec: f(xs...) if n == 0, else g(n-1, h(n-1, xs...), xs...).
\* The inner h is evaluated before g is called.
rec_h(f, g, args) ==
  IF Len(args) = 0 THEN Raise("TypeError")
  ELSE LET n  == Head(args)
           xs == Tail(args)
       IN  IF n = 0 THEN Apply(f, xs)
           ELSE LET r == rec_h(f, g, <<n - 1>> \o xs)
                IN  IF ~IsOk(r) THEN r
                    ELSE Apply(g, <<n - 1, r.val>> \o xs)

\* t(args...)
Apply(t, args) ==
  CASE t.op = "incr"   -> IF Len(args) = 1 THEN Ok(args[1] + 1)
                          ELSE Raise("TypeError")
    [] t.op = "const"  -> Ok(t.k)
    [] t.op = "mkproj" -> proj(t.i, args)
    [] t.op = "id"     -> IF Len(args) = 1 THEN proj(0, args)
                          ELSE Raise("TypeError")
    [] t.op = "lambda_n_y" -> IF Len(args) = 2 THEN Ok(args[1])
                              ELSE Raise("TypeError")
    [] t.op = "flip"   -> IF Len(args) = 2 THEN Apply(t.f, <<args[2], args[1]>>)
                          ELSE Raise("TypeError")
    [] t.op = "def2"   -> IF Len(args) = 2 THEN Apply(t.f, args)
                          ELSE Raise("TypeError")
    [] t.op = "comp"   -> comp_g(t.f, t.hs, args)
    [] t.op = "rec"    -> rec_h(t.f, t.g, args)

\* -------------------------------------------------- the names of the module
\* the function values bound to a name at module level
Fn == [zero |-> zero, one |-> one, id |-> id, pred |-> pred,
       add |-> add, mul |-> mul, exp |-> exp, sub |-> sub,
       is_zero |-> is_zero, sign |-> sign, leq |-> leq, eq |-> eq,
       neq |-> neq, max |-> max, min |-> min, geq |-> geq, lt |-> lt,
       add_raw |-> add_raw, mul_raw |-> mul_raw, exp_raw |-> exp_raw,
       sub_raw |-> sub_raw, add_step |-> add_step, mul_step |-> mul_step,
       exp_step |-> exp_step, sub_step |-> sub_step,
       is_zero_step |-> is_zero_step, sign_step |-> sign_step]

LibNames  == {"zero", "one", "id", "pred", "add", "mul", "exp", "sub",
              "is_zero", "sign", "leq", "eq", "neq", "max", "min",
              "geq", "lt"}
\* the values built by rec and by comp
RecNames  == {"pred", "add_raw", "mul_raw", "exp_raw", "sub_raw",
              "is_zero", "sign"}
CompNames == {"add_step", "mul_step", "exp_step", "sub_step",
              "is_zero_step", "sign_step", "leq", "eq", "neq", "max", "min"}

\* ------------------------------------------------------------------ state
VARIABLES
  pc,      \* "idle", "mu", "rec_enter", "rec_return", "comp", "returned", "raised"
  op,      \* the operation in progress: "lib", "mu", "rec", "comp", "examples"
  fn,      \* the name of the function value called (for mu: of its predicate)
  args,    \* the argument tuple of the call
  result,  \* what the call returned or raised; None while it runs
  n,       \* mu: the search counter; rec: the n of the frame being executed
  stack,   \* rec: the n of every frame waiting for its inner h(n-1, ...)
  acc,     \* rec: the value returned by the frame below
  ys,      \* comp: the results of h1..hi consumed from the generator so far
  log,     \* the applications made by mu, rec and comp, in order
  calls,   \* the number of calls started
  out      \* the dictionary returned by examples(), in insertion order

vars == <<pc, op, fn, args, result, n, stack, acc, ys, log, calls, out>>

RECURSIVE TuplesUpTo(_)
TuplesUpTo(k) ==
  IF k = 0 THEN {<< >>}
  ELSE LET S == TuplesUpTo(k - 1)
       IN  S \cup {Append(s, v) : s \in {t \in S : Len(t) = k - 1}, v \in 0..MaxArg}

ArgTuples == TuplesUpTo(MaxArity)

Done == pc \in {"returned", "raised"}

\* an application recorded in the log
Entry(who, idx, as) == [call |-> calls, who |-> who, idx |-> idx, args |-> as]

Init ==
  /\ args \in ArgTuples
  /\ pc = "idle" /\ op = "none" /\ fn = "none"
  /\ result = None
  /\ n = 0 /\ stack = << >> /\ acc = 0 /\ ys = << >>
  /\ log = << >> /\ calls = 0 /\ out = << >>

\* A call starts on a fresh argument tuple, or repeats the call that has
\* just ended on the same function value and arguments.
CanCall(o, name) ==
  \/ pc = "idle"
  \/ Done /\ op = o /\ fn = name /\ calls < MaxCalls

Start(o, name) ==
  /\ op' = o /\ fn' = name /\ calls' = calls + 1
  /\ UNCHANGED args

Finish(r) ==
  /\ result' = r
  /\ pc' = IF IsOk(r) THEN "returned" ELSE "raised"

\* a library function called from outside: name(args...)
LibCall(name) ==
  /\ CanCall("lib", name)
  /\ Start("lib", name)
  /\ Finish(Apply(Fn[name], args))
  /\ UNCHANGED <<n, stack, acc, ys, log, out>>

\* ---------------------------------------------------------- mu (lines 36-44)
\* the predicate of the specification's example: p(n) = sub(n, 3)
p_sub3 == comp(sub, <<mkproj(0), const(3)>>)

Pred == [k \in LibNames \cup {"p_sub3"} |->
           IF k = "p_sub3" THEN p_sub3 ELSE Fn[k]]
MuNames == DOMAIN Pred

\* a search that starts at 1
MuCall_from1(name) ==
  /\ CanCall("mu", name)
  /\ Start("mu", name)
  /\ n' = 1
  /\ pc' = "mu" /\ result' = None
  /\ UNCHANGED <<stack, acc, ys, log, out>>

\* m(xs...): n = 0
MuCall(name) ==
  /\ CanCall("mu", name)
  /\ Start("mu", name)
  /\ n' = 0
  /\ pc' = "mu" /\ result' = None
  /\ UNCHANGED <<stack, acc, ys, log, out>>

\* a loop that gives up with an exception once n has passed MaxArg
MuTest_capped ==
  /\ pc = "mu"
  /\ n <= MaxSearch
  /\ LET r == Apply(Pred[fn], <<n>> \o args)
     IN  /\ log' = Append(log, Entry("p", 0, <<n>> \o args))
         /\ IF ~IsOk(r) THEN Finish(r) /\ n' = n
            ELSE IF r.val = 0 THEN Finish(Ok(n)) /\ n' = n
            ELSE IF n > MaxArg THEN Finish(Raise("TypeError")) /\ n' = n
            ELSE n' = n + 1 /\ UNCHANGED <<pc, result>>
  /\ UNCHANGED <<op, fn, args, stack, acc, ys, calls, out>>

\* one turn of the loop: if p(n, xs...) == 0: return n; else n += 1.
\* An exception raised by p leaves the loop and the call.
MuTest ==
  /\ pc = "mu"
  /\ n <= MaxSearch
  /\ LET r == Apply(Pred[fn], <<n>> \o args)
     IN  /\ log' = Append(log, Entry("p", 0, <<n>> \o args))
         /\ IF ~IsOk(r) THEN Finish(r) /\ n' = n
            ELSE IF r.val = 0 THEN Finish(Ok(n)) /\ n' = n
            ELSE n' = n + 1 /\ UNCHANGED <<pc, result>>
  /\ UNCHANGED <<op, fn, args, stack, acc, ys, calls, out>>

\* -------------------------------------------------------- rec (lines 28-34)
\* h(n, xs...) is called; h needs its first argument
RecCall(name) ==
  /\ CanCall("rec", name)
  /\ Start("rec", name)
  /\ IF Len(args) = 0
     THEN Finish(Raise("TypeError")) /\ n' = 0
     ELSE pc' = "rec_enter" /\ result' = None /\ n' = Head(args)
  /\ stack' = << >> /\ acc' = 0
  /\ UNCHANGED <<ys, log, out>>

\* if n == 0: return f(xs...)
RecBase ==
  /\ pc = "rec_enter" /\ n = 0
  /\ LET r == Apply(Fn[fn].f, Tail(args))
     IN  /\ log' = Append(log, Entry("f", 0, Tail(args)))
         /\ IF IsOk(r)
            THEN acc' = r.val /\ pc' = "rec_return" /\ UNCHANGED result
            ELSE Finish(r) /\ UNCHANGED acc
  /\ UNCHANGED <<op, fn, args, n, stack, ys, calls, out>>

\* n != 0: the argument h(n-1, xs...) of g is evaluated first
RecDescend ==
  /\ pc = "rec_enter" /\ n > 0
  /\ stack' = Append(stack, n)
  /\ n' = n - 1
  /\ UNCHANGED <<pc, op, fn, args, result, acc, ys, log, calls, out>>

\* a step that hands g the n of its own frame instead of n-1
RecStep_own_n ==
  /\ pc = "rec_return" /\ stack # << >>
  /\ LET k == stack[Len(stack)]
         a == <<k, acc>> \o Tail(args)
         r == Apply(Fn[fn].g, a)
     IN  /\ log' = Append(log, Entry("g", 0, a))
         /\ stack' = SubSeq(stack, 1, Len(stack) - 1)
         /\ n' = k
         /\ IF IsOk(r)
            THEN acc' = r.val /\ UNCHANGED <<pc, result>>
            ELSE Finish(r) /\ UNCHANGED acc
  /\ UNCHANGED <<op, fn, args, ys, calls, out>>

\* the inner call has returned acc: return g(n-1, acc, xs...)
RecStep ==
  /\ pc = "rec_return" /\ stack # << >>
  /\ LET k == stack[Len(stack)]
         a == <<k - 1, acc>> \o Tail(args)
         r == Apply(Fn[fn].g, a)
     IN  /\ log' = Append(log, Entry("g", 0, a))
         /\ stack' = SubSeq(stack, 1, Len(stack) - 1)
         /\ n' = k
         /\ IF IsOk(r)
            THEN acc' = r.val /\ UNCHANGED <<pc, result>>
            ELSE Finish(r) /\ UNCHANGED acc
  /\ UNCHANGED <<op, fn, args, ys, calls, out>>

\* the outermost frame returns
RecReturn ==
  /\ pc = "rec_return" /\ stack = << >>
  /\ Finish(Ok(acc))
  /\ UNCHANGED <<op, fn, args, n, stack, acc, ys, log, calls, out>>

\* ------------------------------------------------------- comp (lines 21-26)
\* g(args...) is called: xs is a generator, nothing is applied yet
CompCall(name) ==
  /\ CanCall("comp", name)
  /\ Start("comp", name)
  /\ pc' = "comp" /\ result' = None
  /\ ys' = << >>
  /\ UNCHANGED <<n, stack, acc, log, out>>

\* a generator that runs over hs from its last element to its first
CompNext_reversed ==
  /\ pc = "comp" /\ Len(ys) < Len(Fn[fn].hs)
  /\ LET i == Len(Fn[fn].hs) - Len(ys)
         r == Apply(Fn[fn].hs[i], args)
     IN  /\ log' = Append(log, Entry("h", i, args))
         /\ IF IsOk(r)
            THEN ys' = Append(ys, r.val) /\ UNCHANGED <<pc, result>>
            ELSE Finish(r) /\ UNCHANGED ys
  /\ UNCHANGED <<op, fn, args, n, stack, acc, calls, out>>

\* f(xs...) draws the next element of the generator: h(args...)
CompNext ==
  /\ pc = "comp" /\ Len(ys) < Len(Fn[fn].hs)
  /\ LET i == Len(ys) + 1
         r == Apply(Fn[fn].hs[i], args)
     IN  /\ log' = Append(log, Entry("h", i, args))
         /\ IF IsOk(r)
            THEN ys' = Append(ys, r.val) /\ UNCHANGED <<pc, result>>
            ELSE Finish(r) /\ UNCHANGED ys
  /\ UNCHANGED <<op, fn, args, n, stack, acc, calls, out>>

\* the generator is exhausted: f is applied to the results
CompApply ==
  /\ pc = "comp" /\ Len(ys) = Len(Fn[fn].hs)
  /\ log' = Append(log, Entry("f", 0, ys))
  /\ Finish(Apply(Fn[fn].f, ys))
  /\ UNCHANGED <<op, fn, args, n, stack, acc, ys, calls, out>>

\* -------------------------------------------------- examples (lines 131-146)
ExampleCalls ==
  << <<"pred(0)", "pred", <<0>> >>,       <<"pred(5)", "pred", <<5>> >>,
     <<"add(3,4)", "add", <<3, 4>> >>,    <<"mul(3,4)", "mul", <<3, 4>> >>,
     <<"exp(2,5)", "exp", <<2, 5>> >>,    <<"sub(7,10)", "sub", <<7, 10>> >>,
     <<"sub(10,7)", "sub", <<10, 7>> >>,  <<"is_zero(0)", "is_zero", <<0>> >>,
     <<"is_zero(9)", "is_zero", <<9>> >>, <<"leq(3,7)", "leq", <<3, 7>> >>,
     <<"leq(7,3)", "leq", <<7, 3>> >>,    <<"eq(9,9)", "eq", <<9, 9>> >>,
     <<"eq(9,8)", "eq", <<9, 8>> >> >>

\* examples() takes no argument and returns the dictionary of the results
Examples ==
  /\ CanCall("examples", "examples")
  /\ Start("examples", "examples")
  /\ IF args # << >>
     THEN Finish(Raise("TypeError")) /\ UNCHANGED out
     ELSE LET rs  == [j \in 1..Len(ExampleCalls) |->
                       Apply(Fn[ExampleCalls[j][2]], ExampleCalls[j][3])]
              bad == {j \in 1..Len(ExampleCalls) : ~IsOk(rs[j])}
          IN  IF bad # {}
              THEN Finish(rs[CHOOSE j \in bad : \A k \in bad : j <= k])
                   /\ UNCHANGED out
              ELSE /\ out' = [j \in 1..Len(ExampleCalls) |->
                                [k |-> ExampleCalls[j][1], v |-> rs[j].val]]
                   /\ pc' = "returned" /\ result' = None
  /\ UNCHANGED <<n, stack, acc, ys, log>>

Next ==
  \/ \E name \in LibNames : LibCall(name)
  \/ \E name \in MuNames : MuCall(name)
  \/ MuTest
  \/ \E name \in RecNames : RecCall(name)
  \/ RecBase
  \/ RecDescend
  \/ RecStep
  \/ RecReturn
  \/ \E name \in CompNames : CompCall(name)
  \/ CompNext
  \/ CompApply
  \/ Examples

Spec == Init /\ [][Next]_vars

TypeOK ==
  /\ pc \in {"idle", "mu", "rec_enter", "rec_return", "comp", "returned", "raised"}
  /\ args \in ArgTuples
  /\ n \in Nat /\ acc \in Nat
  /\ result.err \in {"pending", "none", "TypeError", "IndexError"}
  /\ result.val \in Nat

\* ------------------------------------------------------------- properties
\* the applications logged by call number c, and by the call in progress
CallLog(c) == SelectSeq(log, LAMBDA e : e.call = c)
ThisCall == CallLog(calls)

\* p(k, xs...) returns 0, for the predicate named and the arguments of the call
ZeroOn(name, k, xs) ==
  LET r == Apply(Pred[name], <<k>> \o xs) IN IsOk(r) /\ r.val = 0
ZeroAt(name, k) == ZeroOn(name, k, args)
\* p(k, xs...) returns a non-zero natural
NonZeroOn(name, k, xs) ==
  LET r == Apply(Pred[name], <<k>> \o xs) IN IsOk(r) /\ r.val # 0
NonZeroAt(name, k) == NonZeroOn(name, k, args)
HasZero(name) == \E k \in 0..MaxSearch : ZeroAt(name, k)
\* Every library function that has a zero on arguments up to MaxArg has one
\* at or below MaxArg + 1 < MaxSearch, so the bounded test is the unbounded one.
NeverZeroOn(name, xs) == \A k \in 0..(MaxSearch + 1) : NonZeroOn(name, k, xs)
NeverZero(name) == NeverZeroOn(name, args)

\* C1: when p(n, xs) = 0 for some n, mu(p)(xs) evaluates p at 0, 1, 2, ... in
\* increasing order, never raises, never searches past a zero, and what it
\* returns is the least n with p(n, xs) = 0, the last value p was evaluated at.
C1_MuReturnsLeast ==
  (op = "mu" /\ HasZero(fn)) =>
    /\ pc # "raised"
    /\ \A j \in 1..Len(ThisCall) :
          ThisCall[j].who = "p" /\ ThisCall[j].args = <<j - 1>> \o args
    /\ \A k \in 0..(n - 1) : NonZeroAt(fn, k)
    /\ pc = "mu" => Len(ThisCall) = n /\ n <= MaxSearch
    /\ pc = "returned" =>
          /\ result = Ok(n)
          /\ ZeroAt(fn, n)
          /\ Len(ThisCall) = n + 1

C1_Witness ==
  op = "mu" /\ pc = "returned" /\ result.val >= 2 /\ Len(args) >= 1

\* C4: when p(n, xs) is non-zero for every n, every step of mu(p)(xs) leaves
\* the call searching with the counter one higher: no result, no exception.
C4_MuNeverReturns ==
  [][(op' = "mu" /\ NeverZeroOn(fn', args')) =>
        /\ pc' = "mu" /\ result' = None
        /\ n' = IF pc = "mu" THEN n + 1 ELSE 0]_vars

C4_Witness ==
  op = "mu" /\ NeverZero(fn) /\ pc = "mu" /\ n = MaxSearch + 1
    /\ Len(ThisCall) = n /\ Len(args) >= 1

\* C5 as stated: p(n) = sub(n, 3) is zero exactly at n = 3 and mu(p)()
\* returns 3.
C5_Original ==
  (op = "mu" /\ fn = "p_sub3" /\ args = << >> /\ pc = "returned") =>
    /\ \A k \in 0..MaxSearch : ZeroAt(fn, k) <=> k = 3
    /\ result = Ok(3)

\* C5 amended: p(n) = sub(n, 3) is zero exactly at n = 0, 1, 2, 3 and mu(p)()
\* returns 0, the least of them, having evaluated p at 0 only.
C5_MuSub3 ==
  (op = "mu" /\ fn = "p_sub3" /\ args = << >>) =>
    /\ \A k \in 0..MaxSearch : ZeroAt(fn, k) <=> k <= 3
    /\ \A k \in 0..MaxSearch : NonZeroAt(fn, k) <=> k > 3
    /\ pc # "raised"
    /\ pc = "returned" =>
          /\ result = Ok(0)
          /\ Len(ThisCall) = 1 /\ ThisCall[1].args = <<0>>

C5_Witness ==
  op = "mu" /\ fn = "p_sub3" /\ args = << >> /\ pc = "returned"

\* f and g of the rec value named return a natural on the arguments this call
\* gives them (whether they do depends on the number of arguments only)
Total(name) ==
  /\ Len(args) >= 1
  /\ IsOk(Apply(Fn[name].f, Tail(args)))
  /\ \A k \in 0..MaxArg, a \in 0..MaxArg :
        IsOk(Apply(Fn[name].g, <<k, a>> \o Tail(args)))

\* the equations of primitive recursion, from 0 upward:
\* h(0, xs) = f(xs), h(k+1, xs) = g(k, h(k, xs), xs)
RECURSIVE RecValue(_, _)
RecValue(name, k) ==
  IF k = 0 THEN Apply(Fn[name].f, Tail(args)).val
  ELSE Apply(Fn[name].g, <<k - 1, RecValue(name, k - 1)>> \o Tail(args)).val

\* C2: for h = rec(f, g) with f and g total, a call h(n, xs) never raises,
\* descends one frame per level, and returns after applying f once to xs and
\* then g exactly n times, to (0, h(0, xs), xs), ..., (n-1, h(n-1, xs), xs);
\* the value returned is the one the equations of primitive recursion give,
\* and for n = 0 it is f(xs) with g never applied.
C2_RecEquations ==
  (op = "rec" /\ Total(fn)) =>
    LET N == Head(args)
        L == ThisCall
    IN  /\ pc # "raised"
        /\ pc = "rec_enter" => n + Len(stack) = N /\ L = << >>
        /\ pc = "rec_return" => Len(L) = n + 1 /\ acc = RecValue(fn, n)
                                 /\ n + Len(stack) = N
        /\ pc = "returned" =>
              /\ result = Ok(RecValue(fn, N))
              /\ result = Apply(Fn[fn], args)
              /\ Len(L) = N + 1
              /\ L[1].who = "f" /\ L[1].args = Tail(args)
              /\ \A j \in 1..N :
                    /\ L[j + 1].who = "g"
                    /\ L[j + 1].args = <<j - 1, RecValue(fn, j - 1)>> \o Tail(args)
              /\ N = 0 => result = Apply(Fn[fn].f, Tail(args))

C2_Witness ==
  op = "rec" /\ Total(fn) /\ pc = "returned" /\ Head(args) >= 2
    /\ Len(args) = 2 /\ result.val >= 2

\* C3: for g = comp(f, h1, ..., hk), a call g(xs) applies h1, ..., hk in that
\* order, each once and each to xs, then applies f once to the tuple of their
\* results and returns what f returns (f() when k = 0); a second call of g
\* on the same xs makes the same applications again.
C3_CompApplies ==
  (op = "comp") =>
    LET hs == Fn[fn].hs
        k  == Len(hs)
        L  == ThisCall
    IN  /\ \A j \in 1..Len(L) :
              IF j <= k
              THEN L[j].who = "h" /\ L[j].idx = j /\ L[j].args = args
              ELSE L[j].who = "f" /\ j = k + 1
        /\ pc = "comp" => Len(L) = Len(ys)
        /\ \A j \in 1..Len(ys) : Ok(ys[j]) = Apply(hs[j], args)
        /\ Done =>
              /\ result = Apply(Fn[fn], args)
              /\ Len(L) = k + 1 =>
                    /\ L[k + 1].args = [j \in 1..k |-> Apply(hs[j], args).val]
                    /\ result = Apply(Fn[fn].f, L[k + 1].args)
        /\ pc = "returned" => Len(L) = k + 1
        /\ Done =>
              \A c \in 1..(calls - 1) :
                 /\ Len(CallLog(c)) = Len(L)
                 /\ \A j \in 1..Len(L) :
                       /\ CallLog(c)[j].who = L[j].who
                       /\ CallLog(c)[j].idx = L[j].idx
                       /\ CallLog(c)[j].args = L[j].args

C3_Witness ==
  op = "comp" /\ pc = "returned" /\ calls = 2 /\ Len(Fn[fn].hs) = 2
    /\ Len(log) = 6 /\ result.val >= 1

\* the number of arguments each library function is written for; const(k)
\* (zero, one) is written for any number and has no entry
Arity == [id |-> 1, pred |-> 1, add |-> 2, mul |-> 2, exp |-> 2, sub |-> 2,
          is_zero |-> 1, sign |-> 1, leq |-> 2, eq |-> 2, neq |-> 2,
          max |-> 2, min |-> 2]

LibReturned(name) == op = "lib" /\ fn = name /\ Done /\ Len(args) = 2

\* C6: a library function called with a number of arguments other than its
\* arity raises; it never returns a natural.
C6_ArityMismatchRaises ==
  (op = "lib" /\ fn \in DOMAIN Arity /\ Len(args) # Arity[fn] /\ Done) =>
    pc = "raised" /\ IsErr(result)

\* C7: sub(x, y) returns x - y when x >= y and 0 when x < y, so sub(x, 0) = x
\* and the result is never negative; examples() has sub(7,10) = 0 and
\* sub(10,7) = 3.
C7_SubIsMonus ==
  /\ LibReturned("sub") =>
        LET x == args[1]
            y == args[2]
        IN  /\ pc = "returned"
            /\ result.val = IF x >= y THEN x - y ELSE 0
            /\ result.val >= 0
            /\ y = 0 => result.val = x
  /\ (op = "examples" /\ pc = "returned") =>
        /\ out[6] = [k |-> "sub(7,10)", v |-> 0]
        /\ out[7] = [k |-> "sub(10,7)", v |-> 3]

C7_Witness ==
  /\ LibReturned("sub") /\ args[1] < args[2] /\ args[1] > 0 /\ pc = "returned"

\* C8: eq(x, y) returns 1 when x = y and 0 otherwise; examples() has
\* eq(9,9) = 1 and eq(9,8) = 0.
C8_EqIsEquality ==
  /\ LibReturned("eq") =>
        /\ pc = "returned"
        /\ result.val = IF args[1] = args[2] THEN 1 ELSE 0
        /\ result.val \in {0, 1}
  /\ (op = "examples" /\ pc = "returned") =>
        /\ out[12] = [k |-> "eq(9,9)", v |-> 1]
        /\ out[13] = [k |-> "eq(9,8)", v |-> 0]

C8_Witness ==
  /\ LibReturned("eq") /\ args[1] < args[2] /\ pc = "returned" /\ calls = 1

\* C9: leq(x, y) returns 0 or 1, leq(x, y) + leq(y, x) >= 1, and both are 1
\* exactly when x = y.
C9_LeqIsTotal ==
  LibReturned("leq") =>
    LET x  == args[1]
        y  == args[2]
        yx == Apply(leq, <<y, x>>)
    IN  /\ pc = "returned" /\ IsOk(yx)
        /\ result.val \in {0, 1} /\ yx.val \in {0, 1}
        /\ result.val + yx.val >= 1
        /\ (result.val = 1 /\ yx.val = 1) <=> x = y

C9_Witness ==
  /\ LibReturned("leq") /\ args[1] > args[2] /\ pc = "returned" /\ calls = 1

\* C10: add(x, y) = add(y, x) and mul(x, y) = mul(y, x), the value being
\* x + y and x * y, where add(x, y) is add_raw(y, x) and mul(x, y) is
\* mul_raw(y, x).
C10_AddMulCommute ==
  /\ LibReturned("add") =>
        /\ pc = "returned"
        /\ result = Apply(add, <<args[2], args[1]>>)
        /\ result = Apply(add_raw, <<args[2], args[1]>>)
        /\ result.val = args[1] + args[2]
  /\ LibReturned("mul") =>
        /\ pc = "returned"
        /\ result = Apply(mul, <<args[2], args[1]>>)
        /\ result = Apply(mul_raw, <<args[2], args[1]>>)
        /\ result.val = args[1] * args[2]

C10_Witness ==
  /\ LibReturned("mul") /\ args[1] = 2 /\ args[2] = 3 /\ pc = "returned"

====
